---- MODULE Spec2Model ----
(***************************************************************************)
(* FairDeal front end: the analysis life-cycle of the two views that host  *)
(* the analyze trigger (pages/Dashboard.tsx and pages/AnalyzePage.tsx),    *)
(* the context form shared by both, and the persisted user context.        *)
(*                                                                         *)
(* Timers are kept in the order of their creation; of two timers the one   *)
(* created first with a delay no longer than the other's runs first.       *)
(***************************************************************************)
EXTENDS Integers, Sequences, FiniteSets, TLC

\* ---------------------------------------------------------------- bounds
MaxClicks == 2
\* clicks on "Copy" buttons
MaxCopies == 3
\* negotiation points of a result
MaxPoints == 3
\* points of a chart series
MaxSeries == 3
\* red flags, favorable terms, negotiation points of a result, each
MaxFindings == 2
\* market salaries, in whole units
MaxSalary == 8
\* extracted notice period, in days
MaxDays == 90
\* extracted non-compete and probation periods, in months
MaxMonths == 24
\* extracted bond amount, in units of 10000 INR
MaxBondUnits == 110

\* ------------------------------------------------------------ input sets
None == "none"
Undefined == "undefined"
Files == {"a.pdf"}
\* what a user may drag onto the AnalyzePage dropzone
DroppedFiles == {"a.pdf", "b.docx", "c.txt", "d.pdf"}
Roles == {"", "SWE"}
Locations == {""}
Datas == {"r1"}
Errors == {"", "HTTP 500"}

\* ------------------------------------------------------ program constants
\* the progress values of the six stage descriptors
progressStages == <<20, 40, 50, 70, 90, 100>>
\* setTimeout(resolve, 500)
StageDelay == 500
\* the delay after which the copy indicator is reverted
CopyDelay == 2000
\* the upper end of the score scale
MaxScore == 100
\* const points = 50 of generateDistributionData
points == 50
\* the x-values of the distribution are kept in units of 1/1350, in which
\* stdDev = (p75 - p25) / 1.35 and step = (end - start) / 50 are whole
XScale == 1350

VARIABLES
    page,      \* the mounted view: "Dashboard", "AnalyzePage" or "ResultsPage"
    context,   \* useState<Context> of the view
    storage,   \* localStorage['fairdeal_context']: None or a JSON text
    form,      \* the ContextForm's own state, NoForm while it is unmounted
    file,      \* useState<File | null>
    result,    \* Dashboard: useState result; ResultsPage: location.state.result
    progress,  \* Dashboard: useState progress; 0 is null, i is stage i
    mut,       \* the observer state of useAnalyzeContract()
    hs,        \* the invocations of handleAnalyze, in click order
    timers,    \* pending setTimeout callbacks, in creation order
    errorObserved, \* a request has failed since the last accepted click
    copiedScript, \* Dashboard: useState copiedScript, None or an item id
    storageOk, \* localStorage.setItem succeeds (FALSE: it throws)
    arg,       \* the value handed to a pure function of the views
    out        \* what the function made of it

\* the state outside the analysis life-cycle
aux == <<copiedScript, storageOk, arg, out>>

vars == <<page, context, storage, form, file, result, progress, mut, hs,
          timers, errorObserved, aux>>

\* ---------------------------------------------------------------- JSON
\* A JSON text is the sequence of the members written, each with its key,
\* the kind of its value and the characters of the value.
NumText(n) ==
    CASE n = 1 -> "1" [] n = 4 -> "4" [] n = 8 -> "8" [] n = 15 -> "15"
      [] OTHER -> "null"

ParseFloat(s) ==
    CASE s = "1" -> 1 [] s = "4" -> 4 [] s = "8" -> 8 [] s = "15" -> 15
      [] OTHER -> 0

\* a stringify that also leaves out the members whose value is empty
StringifyNonEmpty(ctx) ==
    SelectSeq(<< <<"role", "str", ctx.role>>,
                 <<"experience_level", "num", NumText(ctx.experience_level)>>,
                 <<"company_type", "str", ctx.company_type>>,
                 <<"location", "str", ctx.location>>,
                 <<"industry", "str", ctx.industry>> >>,
              LAMBDA m : m[3] # Undefined /\ m[3] # "")

\* JSON.stringify(context): members whose value is undefined are left out
Stringify(ctx) ==
    SelectSeq(<< <<"role", "str", ctx.role>>,
                 <<"experience_level", "num", NumText(ctx.experience_level)>>,
                 <<"company_type", "str", ctx.company_type>>,
                 <<"location", "str", ctx.location>>,
                 <<"industry", "str", ctx.industry>> >>,
              LAMBDA m : m[3] # Undefined)

Member(text, key) ==
    LET found == SelectSeq(text, LAMBDA m : m[1] = key)
    IN  IF found = << >> THEN Undefined ELSE found[1][3]

\* JSON.parse(saved)
Parse(text) ==
    [role             |-> Member(text, "role"),
     experience_level |-> ParseFloat(Member(text, "experience_level")),
     company_type     |-> Member(text, "company_type"),
     location         |-> Member(text, "location"),
     industry         |-> Member(text, "industry")]

\* ------------------------------------------------------- initial context
DashboardDefault ==
    [role |-> "", experience_level |-> 1, company_type |-> "PRODUCT",
     location |-> Undefined, industry |-> Undefined]

AnalyzePageDefault ==
    [role |-> "", experience_level |-> 1, company_type |-> "PRODUCT",
     location |-> "national", industry |-> "tech"]

\* useState(() => { saved ? JSON.parse(saved) : default })
ReadContext(saved, view) ==
    IF saved # None THEN Parse(saved)
    ELSE IF view = "Dashboard" THEN DashboardDefault ELSE AnalyzePageDefault

\* ----------------------------------------------------------- ContextForm
OrElse(v, d) == IF v = Undefined \/ v = "" THEN d ELSE v

\* the five useState initialisers of ContextForm
FormInit(ctx) ==
    [role        |-> OrElse(ctx.role, ""),
     experience  |-> OrElse(NumText(ctx.experience_level), "1"),
     companyType |-> OrElse(ctx.company_type, "PRODUCT"),
     location    |-> OrElse(ctx.location, "mumbai"),
     industry    |-> OrElse(ctx.industry, "tech")]

\* the form's state while the ContextForm is not mounted
NoForm ==
    [role |-> Undefined, experience |-> Undefined, companyType |-> Undefined,
     location |-> Undefined, industry |-> Undefined]

\* the Context the form's effect hands to onContextChange
FormCtx(f) ==
    [role             |-> f.role,
     experience_level |-> ParseFloat(f.experience),
     company_type     |-> f.companyType,
     location         |-> f.location,
     industry         |-> f.industry]

\* the Dashboard's persist effect; AnalyzePage has none
Persist(view, ctx, old) ==
    IF view = "Dashboard" THEN Stringify(ctx) ELSE old

\* ------------------------------------------------------------- mutation
IdleMutation == [status |-> "idle", error |-> None, owner |-> 0]

isPending == mut.status = "pending"
isError == mut.status = "error"

\* mutateAsync({file, context}) called by invocation h
Mutate(h) == [status |-> "pending", error |-> None, owner |-> h]

\* the request of invocation h settles; the observer follows only the
\* mutation it currently watches
Settled(m, h, status, err) ==
    IF m.owner = h THEN [status |-> status, error |-> err, owner |-> h]
    ELSE m

\* ------------------------------------------------------------ rendering
\* Dashboard: disabled={!file || isPending}
\* AnalyzePage: disabled={!file || isPending || !context.role}
TriggerDisabled ==
    CASE page = "Dashboard"   -> file = None \/ isPending
      [] page = "AnalyzePage" -> file = None \/ isPending \/ context.role = ""
      [] OTHER -> TRUE

\* the trigger is rendered at all
TriggerRendered ==
    \/ page = "Dashboard" /\ result = None
    \/ page = "AnalyzePage"

\* {progress && !result && (...)}
ProgressBarVisible == page = "Dashboard" /\ progress # 0 /\ result = None

\* the text of the error banner, None when no banner is rendered
ErrorShown ==
    IF page = "AnalyzePage" /\ isError
    THEN (IF mut.error # "" THEN mut.error ELSE "Internal Analysis Failure")
    ELSE None

\* ---------------------------------------------------------- handleAnalyze
\* One invocation: pc is "stage" while it waits for the timer of stage
\* `stage`, "request" while it awaits mutateAsync, "done" afterwards.
\* emitted counts its setProgress(stage) calls, sent its mutateAsync calls.
NewHandler(f, ctx, pc, stage, emitted, sent) ==
    [pc |-> pc, stage |-> stage, file |-> f, ctx |-> ctx,
     emitted |-> emitted, sent |-> sent, outcome |-> None]

\* the loop leaves after the third stage
NextStageEarly(i) == IF i < 3 THEN i + 1 ELSE 0

\* where the for-loop goes after the wait of stage i: the next stage, or
\* past the loop (0) to the request
NextStage(i) == IF i < Len(progressStages) THEN i + 1 ELSE 0

\* the closure of an invocation that has returned holds nothing any more
NoCtx ==
    [role |-> Undefined, experience_level |-> 0, company_type |-> Undefined,
     location |-> Undefined, industry |-> Undefined]

Returned(hr, outcome) ==
    [hr EXCEPT !.pc = "done", !.outcome = outcome, !.file = None,
               !.ctx = NoCtx]

\* the catch block issues the request once more
AfterCatchRetry(hr) == [hr EXCEPT !.pc = "request", !.sent = @ + 1]

\* the invocation after its catch block
AfterCatch(hr) == Returned(hr, "err")

\* the invocation after the try block has run to its end
AfterTry(hr) == Returned(hr, "ok")

\* the catch block leaves the progress state alone
ProgressKept(p) == p

\* setProgress(null) in the catch block
ProgressAfterCatch(p) == 0

\* setTimeout(resolve, 500) of invocation h
StageTimer(h) == [kind |-> "stage", delay |-> StageDelay, h |-> h]

Active(h) == hs[h].pc # "done"
ActiveSet == {h \in 1..Len(hs) : Active(h)}

\* ------------------------------------------------------------------ Init
InitStorages ==
    {None,
     Stringify([role |-> "SWE", experience_level |-> 4,
                company_type |-> "STARTUP", location |-> "pune",
                industry |-> "finance"])}

Init ==
    /\ page \in {"Dashboard", "AnalyzePage"}
    /\ \E saved \in InitStorages :
         LET f == FormInit(ReadContext(saved, page))
         IN  /\ form = f
             /\ context = FormCtx(f)
             /\ storage = Persist(page, FormCtx(f), saved)
    /\ file = None
    /\ result = None
    /\ progress = 0
    /\ mut = IdleMutation
    /\ hs = << >>
    /\ timers = << >>
    /\ errorObserved = FALSE
    /\ copiedScript = None
    /\ storageOk = TRUE
    /\ arg = None
    /\ out = None

\* --------------------------------------------------------------- actions
\* an edit of a form field, the form's effect and the view's persist effect
EditForm(f) ==
    /\ form # NoForm
    /\ f # form
    /\ form' = f
    /\ context' = FormCtx(f)
    /\ storage' = Persist(page, FormCtx(f), storage)
    /\ UNCHANGED <<aux, page, file, result, progress, mut, hs, timers, errorObserved>>

EditRole == \E r \in Roles : EditForm([form EXCEPT !.role = r])

EditLocation == \E l \in Locations : EditForm([form EXCEPT !.location = l])

\* Dashboard: the file input's onChange
DashboardSelectFile ==
    /\ page = "Dashboard" /\ result = None
    /\ \E f \in Files : file' = f
    /\ UNCHANGED <<aux, page, context, storage, form, result, progress, mut, hs,
                   timers, errorObserved>>

\* Dashboard: a click on the enabled "Analyze Contract" button
DashboardClickAnalyze ==
    /\ page = "Dashboard" /\ TriggerRendered /\ ~TriggerDisabled
    /\ Len(hs) < MaxClicks
    /\ file # None
    /\ hs' = Append(hs, NewHandler(file, context, "stage", 1, 1, 0))
    /\ progress' = 1
    /\ timers' = Append(timers, StageTimer(Len(hs) + 1))
    /\ errorObserved' = FALSE
    /\ UNCHANGED <<aux, page, context, storage, form, file, result, mut>>

\* the browser runs a due timer only after every timer that was created
\* earlier with a delay no longer than its own
CanFire(i) ==
    \A j \in 1..(i - 1) : timers[j].delay > timers[i].delay

Without(s, i) == SubSeq(s, 1, i - 1) \o SubSeq(s, i + 1, Len(s))

\* the wait of a stage ends: the loop emits the next stage, or the loop is
\* over and the request is issued
StageTimerFires ==
    \E i \in 1..Len(timers) :
        /\ timers[i].kind = "stage"
        /\ CanFire(i)
        /\ LET h == timers[i].h
               n == NextStage(hs[h].stage)
           IN  IF n # 0
               THEN /\ hs' = [hs EXCEPT ![h].stage = n, ![h].emitted = @ + 1]
                    /\ progress' = n
                    /\ timers' = Append(Without(timers, i), StageTimer(h))
                    /\ UNCHANGED mut
               ELSE /\ hs' = [hs EXCEPT ![h].pc = "request", ![h].stage = 0,
                                        ![h].sent = @ + 1]
                    /\ mut' = Mutate(h)
                    /\ timers' = Without(timers, i)
                    /\ UNCHANGED progress
        /\ UNCHANGED <<aux, page, context, storage, form, file, result,
                       errorObserved>>

\* Dashboard: the request of invocation h resolves
DashboardRequestSucceeds(h) ==
    /\ page = "Dashboard"
    /\ h \in 1..Len(hs) /\ hs[h].pc = "request"
    /\ \E d \in Datas : result' = d
    /\ progress' = 0
    /\ form' = NoForm
    /\ hs' = [hs EXCEPT ![h] = AfterTry(@)]
    /\ mut' = Settled(mut, h, "success", None)
    /\ UNCHANGED <<aux, page, context, storage, file, timers, errorObserved>>

\* Dashboard: the request of invocation h rejects
DashboardRequestFails(h) ==
    /\ page = "Dashboard"
    /\ h \in 1..Len(hs) /\ hs[h].pc = "request"
    /\ progress' = ProgressAfterCatch(progress)
    /\ hs' = [hs EXCEPT ![h] = AfterCatch(@)]
    /\ \E e \in Errors : mut' = Settled(mut, h, "error", e)
    /\ errorObserved' = TRUE
    /\ UNCHANGED <<aux, page, context, storage, form, file, result, timers>>

\* Dashboard: "Analyze Another Contract"; the upload card and with it the
\* ContextForm are mounted again, and the form's effect and the persist
\* effect run
AnalyzeAnother ==
    /\ page = "Dashboard" /\ result # None
    /\ result' = None
    /\ file' = None
    /\ form' = FormInit(context)
    /\ context' = FormCtx(form')
    /\ storage' = Persist(page, context', storage)
    /\ UNCHANGED <<aux, page, progress, mut, hs, timers, errorObserved>>

\* AnalyzePage: handleFileChange; the input is disabled while pending
AnalyzePageSelectFile ==
    /\ page = "AnalyzePage" /\ ~isPending
    /\ \E f \in Files : file' = f
    /\ UNCHANGED <<aux, page, context, storage, form, result, progress, mut, hs,
                   timers, errorObserved>>

\* File.type as the browser reports it; it is empty when the browser does
\* not know the type
FileType(f) ==
    CASE f = "a.pdf" -> "application/pdf"
      [] f = "c.txt" -> "text/plain"
      [] OTHER -> ""

\* droppedFile.name.endsWith('.docx')
EndsWithDocx(f) == f = "b.docx"

\* the drop handler takes whatever is dropped
DropAcceptsAll(f) == TRUE

\* the test of handleDrop
DropAccepts(f) == FileType(f) = "application/pdf" \/ EndsWithDocx(f)

\* AnalyzePage: handleDrop
handleDrop ==
    /\ page = "AnalyzePage"
    /\ \E f \in DroppedFiles : file' = IF DropAccepts(f) THEN f ELSE file
    /\ UNCHANGED <<aux, page, context, storage, form, result, progress, mut,
                   hs, timers, errorObserved>>

\* AnalyzePage: a click on the enabled "Run Analysis" button; handleAnalyze
\* calls mutateAsync at once
AnalyzePageClickAnalyze ==
    /\ page = "AnalyzePage" /\ TriggerRendered /\ ~TriggerDisabled
    /\ Len(hs) < MaxClicks
    /\ file # None
    /\ hs' = Append(hs, NewHandler(file, context, "request", 0, 0, 1))
    /\ mut' = Mutate(Len(hs) + 1)
    /\ errorObserved' = FALSE
    /\ UNCHANGED <<aux, page, context, storage, form, file, result, progress,
                   timers>>

\* AnalyzePage: the request of invocation h resolves and handleAnalyze
\* navigates to /results with the result; AnalyzePage is unmounted
AnalyzePageRequestSucceeds(h) ==
    /\ page # "Dashboard"
    /\ h \in 1..Len(hs) /\ hs[h].pc = "request"
    /\ \E d \in Datas : result' = d
    /\ page' = "ResultsPage"
    /\ context' = NoCtx
    /\ form' = NoForm
    /\ file' = None
    /\ mut' = IdleMutation
    /\ hs' = [hs EXCEPT ![h] = AfterTry(@)]
    /\ UNCHANGED <<aux, storage, progress, timers, errorObserved>>

\* AnalyzePage: the request of invocation h rejects
AnalyzePageRequestFails(h) ==
    /\ page # "Dashboard"
    /\ h \in 1..Len(hs) /\ hs[h].pc = "request"
    /\ hs' = [hs EXCEPT ![h] = AfterCatch(@)]
    /\ \E e \in Errors : mut' = Settled(mut, h, "error", e)
    /\ errorObserved' = TRUE
    /\ UNCHANGED <<aux, page, context, storage, form, file, result, progress,
                   timers>>

\* AnalyzePage: "Remove Contract"
clearFile ==
    /\ page = "AnalyzePage" /\ file # None
    /\ file' = None
    /\ mut' = IdleMutation
    /\ UNCHANGED <<aux, page, context, storage, form, result, progress, hs, timers,
                   errorObserved>>

\* ResultsPage: navigate('/') mounts a new AnalyzePage
BackToAnalyzePage ==
    /\ page = "ResultsPage"
    /\ page' = "AnalyzePage"
    /\ form' = FormInit(ReadContext(storage, "AnalyzePage"))
    /\ context' = FormCtx(form')
    /\ file' = None
    /\ result' = None
    /\ mut' = IdleMutation
    /\ UNCHANGED <<aux, storage, progress, hs, timers, errorObserved>>

\* the request of some invocation settles
RequestSettles ==
    \E h \in 1..Len(hs) :
        \/ DashboardRequestSucceeds(h)
        \/ DashboardRequestFails(h)
        \/ AnalyzePageRequestSucceeds(h)
        \/ AnalyzePageRequestFails(h)

Next ==
    \/ EditRole
    \/ EditLocation
    \/ DashboardSelectFile
    \/ DashboardClickAnalyze
    \/ StageTimerFires
    \/ \E h \in 1..Len(hs) : DashboardRequestSucceeds(h)
    \/ \E h \in 1..Len(hs) : DashboardRequestFails(h)
    \/ AnalyzeAnother
    \/ AnalyzePageSelectFile
    \/ handleDrop
    \/ AnalyzePageClickAnalyze
    \/ \E h \in 1..Len(hs) : AnalyzePageRequestSucceeds(h)
    \/ \E h \in 1..Len(hs) : AnalyzePageRequestFails(h)
    \/ clearFile
    \/ BackToAnalyzePage

Spec == Init /\ [][Next]_vars

\* the timers of the browser run and every request settles
FairSpec ==
    Spec /\ WF_vars(StageTimerFires) /\ WF_vars(RequestSettles)

\* ==================================================================
\* Properties
\* ==================================================================
RECURSIVE SentUpTo(_)
SentUpTo(n) == IF n = 0 THEN 0 ELSE hs[n].sent + SentUpTo(n - 1)

\* the number of analysis requests issued so far
RequestsIssued == SentUpTo(Len(hs))

\* C1 (as claimed): at most one analysis submission is in flight at any
\* time; a further click starts no second submission.
C1_OneSubmissionInFlight == Cardinality(ActiveSet) <= 1

\* C2: on the Dashboard a result is presented only by an invocation whose
\* timeline has emitted all six stages, the last being 100, and whose
\* request has been issued and has resolved.
C2_ResultAfterTimelineAndRequest ==
    page = "Dashboard" =>
        /\ \A h \in 1..Len(hs) :
               hs[h].outcome = "ok" =>
                   /\ hs[h].emitted = Len(progressStages)
                   /\ hs[h].sent = 1
        /\ result # None => \E h \in 1..Len(hs) : hs[h].outcome = "ok"

C2_Witness ==
    /\ page = "Dashboard" /\ result # None
    /\ \E h \in 1..Len(hs) : hs[h].outcome = "ok"

\* C3 (as claimed): whenever the progress value shown changes to another
\* value, it changes to the next stage of 20, 40, 50, 70, 90, 100: it
\* never goes back and skips nothing.
C3_ProgressInOrder ==
    [][(progress' # progress /\ progress' # 0) => progress' = progress + 1]_vars

\* C4 (as claimed): the request of a submission is issued when the
\* submission starts, so it has been issued whenever the submission is
\* waiting at a progress stage.
C4_RequestIssuedAtStart ==
    \A h \in 1..Len(hs) : hs[h].pc = "stage" => hs[h].sent >= 1

C6_SubmissionEnds ==
    /\ \A h \in 1..MaxClicks :
           (Len(hs) >= h /\ Active(h)) ~> (Len(hs) >= h /\ ~Active(h))
    /\ [](ActiveSet = {} => (progress = 0 /\ ~isPending))

C6_Witness ==
    /\ page = "Dashboard" /\ Len(hs) >= 1 /\ ActiveSet = {}
    /\ hs[1].outcome = "err" /\ ~TriggerDisabled

\* C7 (as claimed): no analysis request is issued unless a file is
\* selected and the role of the Context is non-empty.
C7_RequestNeedsFileAndRole ==
    \A h \in 1..Len(hs) :
        hs[h].pc = "request" => (hs[h].file # None /\ hs[h].ctx.role # "")

\* C8 (as claimed): while the last request has failed and the failure has
\* been neither dismissed nor superseded by a resubmission, the error is
\* shown, with the message of the request's error when it has one.
C8_ErrorIsShown ==
    isError => (ErrorShown # None /\ (mut.error # "" => ErrorShown = mut.error))

\* C9: no automatic retry: an invocation issues at most one request, an
\* invocation whose request failed has returned, and the number of
\* requests issued never exceeds the number of accepted clicks.
C9_NoRetry ==
    /\ RequestsIssued <= Len(hs)
    /\ \A h \in 1..Len(hs) :
           /\ hs[h].sent <= 1
           /\ hs[h].outcome = "err" => (hs[h].pc = "done" /\ hs[h].sent = 1)

C9_Witness ==
    /\ Len(hs) >= 2 /\ hs[1].outcome = "err" /\ hs[2].sent = 1
    /\ RequestsIssued = 2

\* C10 (as claimed): "Analyze Another Contract" clears the file and the
\* result and leaves the Context as it was, in memory and in storage.
C10_AnalyzeAnotherKeepsContext ==
    [][(page = "Dashboard" /\ result # None /\ result' = None) =>
          (file' = None /\ context' = context /\ storage' = storage)]_vars

\* C11 (as claimed): when a file is selected or dropped while the error of
\* a failed submission is displayed, the new file becomes the selected
\* file and the error is no longer displayed.
C11_NewFileClearsError ==
    [][(ErrorShown # None /\ file' # None /\ file' # file) =>
          ErrorShown' = None]_vars

\* the extension of the file name
Extension(f) ==
    CASE f \in {"a.pdf", "d.pdf"} -> "pdf"
      [] f = "b.docx" -> "docx"
      [] f = "c.txt" -> "txt"
      [] OTHER -> ""

\* PDF or DOCX, by MIME type or by extension
IsPdfOrDocx(f) ==
    \/ FileType(f) \in {"application/pdf",
         "application/vnd.openxmlformats-officedocument.wordprocessingml.document"}
    \/ Extension(f) \in {"pdf", "docx"}

\* C18: the selected file of AnalyzePage is never a dropped file that is
\* neither PDF nor DOCX, and a step that changes the selected file there
\* selects a PDF or DOCX and leaves the submission state as it was.
C18_DropTakesOnlyPdfOrDocx ==
    /\ [](page = "AnalyzePage" /\ file # None => IsPdfOrDocx(file))
    /\ [][(page = "AnalyzePage" /\ page' = page /\ file' # file
           /\ file' # None) =>
             (IsPdfOrDocx(file') /\ mut' = mut /\ hs' = hs
              /\ result' = result)]_vars

C18_Witness == page = "AnalyzePage" /\ file = "b.docx"

\* ==================================================================
\* The copy indicator of the result view
\* ==================================================================
\* the negotiation points whose script can be copied
ScriptIds == {"p1", "p2", "p3"}

\* setTimeout(() => setCopiedScript(null), 2000) of click number n
CopyTimer(n) == [kind |-> "copy", delay |-> CopyDelay, h |-> n]

\* the Dashboard shows a result; hs is the log of the clicks on "Copy"
CopyInit ==
    /\ page = "Dashboard"
    /\ context = DashboardDefault
    /\ form = FormInit(DashboardDefault)
    /\ storage = Stringify(DashboardDefault)
    /\ file = "a.pdf"
    /\ result = "r1"
    /\ progress = 0
    /\ mut = IdleMutation
    /\ hs = << >>
    /\ timers = << >>
    /\ errorObserved = FALSE
    /\ copiedScript = None
    /\ storageOk = TRUE
    /\ arg = None
    /\ out = None

\* copyScript(text, id): the indicator is set and a timer is started; the
\* timers of earlier clicks are left running
copyScript(id) ==
    /\ page = "Dashboard" /\ result # None
    /\ Len(hs) < MaxCopies
    /\ hs' = Append(hs, id)
    /\ copiedScript' = id
    /\ timers' = Append(timers, CopyTimer(Len(hs) + 1))
    /\ UNCHANGED <<storageOk, arg, out, page, context, storage, form, file,
                   result, progress, mut, errorObserved>>

\* the callback of a copy timer runs: setCopiedScript(null)
CopyTimerFires ==
    \E i \in 1..Len(timers) :
        /\ timers[i].kind = "copy"
        /\ CanFire(i)
        /\ copiedScript' = None
        /\ timers' = Without(timers, i)
        /\ UNCHANGED <<storageOk, arg, out, page, context, storage, form,
                       file, result, progress, mut, hs, errorObserved>>

CopyNext ==
    \/ \E id \in ScriptIds : copyScript(id)
    \/ CopyTimerFires
    \/ AnalyzeAnother

CopySpec == CopyInit /\ [][CopyNext]_vars

\* C12 (as claimed): while the timer of the newest click on "Copy" is
\* pending, that is for the 2000 ms after the click, the indicator shows
\* the item of that click; the timer of an earlier click does not revert it.
C12_IndicatorHeldForNewestClick ==
    (result # None /\ timers # << >> /\ timers[Len(timers)].h = Len(hs)) =>
        copiedScript = hs[Len(hs)]

\* C13 (as claimed): a reset of the view invalidates the pending timers, so
\* that no timer started before the reset updates the state after it.
C13_ResetInvalidatesTimers ==
    [][(result # None /\ result' = None) => timers' = << >>]_vars

\* C15 (as claimed): in a view that hosts the context form, a step that
\* changes the Context leaves under the storage key the text of the
\* Context as it now is in memory.
C15_PersistedOnEveryChange ==
    [][(form # NoForm /\ form' # NoForm /\ context' # context) =>
          (storage' # None /\ storage' = Stringify(context'))]_vars

\* ==================================================================
\* The persisted Context: load, edit, write, reload
\* ==================================================================
\* the options of the form's selects
ExperienceOptions == {"1", "4", "8", "15"}
CompanyOptions == {"PRODUCT", "SERVICE", "STARTUP"}
IndustryOptions == {"tech", "finance"}
LocationInputs == {"mumbai", "pune"}

\* a stored text that is not JSON
CorruptText == << <<"role", "syntax error", "{">> >>

\* JSON.parse(text) returns; it throws a SyntaxError otherwise
WellFormed(text) == \A i \in 1..Len(text) : text[i][2] \in {"str", "num"}

\* the hard-coded default of the view, as the mounted form hands it back
MountedDefault(view) ==
    FormCtx(FormInit(IF view = "Dashboard" THEN DashboardDefault
                     ELSE AnalyzePageDefault))

\* nothing is mounted; the storage holds nothing, a Context or garbage
StorageInit ==
    /\ page = "Unmounted"
    /\ storage \in InitStorages \cup {CorruptText}
    /\ storageOk \in BOOLEAN
    /\ context = NoCtx
    /\ form = NoForm
    /\ file = None
    /\ result = None
    /\ progress = 0
    /\ mut = IdleMutation
    /\ hs = << >>
    /\ timers = << >>
    /\ errorObserved = FALSE
    /\ copiedScript = None
    /\ arg = None
    /\ out = None

\* an exception nothing catches, thrown while rendering or in an effect:
\* React unmounts the tree
Crash(name) ==
    /\ page' = name
    /\ form' = NoForm
    /\ context' = NoCtx
    /\ UNCHANGED storage

\* the view has this Context after a render; the Dashboard's persist
\* effect runs localStorage.setItem, which may throw
Commit(view, f) ==
    IF view = "Dashboard" /\ ~storageOk
    THEN Crash("QuotaExceededError")
    ELSE /\ page' = view
         /\ form' = f
         /\ context' = FormCtx(f)
         /\ storage' = Persist(view, FormCtx(f), storage)

\* the view mounts: the initialiser of the context state reads the
\* storage, the form mounts, the effects run
Mount(view) ==
    /\ page = "Unmounted"
    /\ IF storage # None /\ ~WellFormed(storage)
       THEN Crash("SyntaxError")
       ELSE Commit(view, FormInit(ReadContext(storage, view)))
    /\ UNCHANGED <<copiedScript, storageOk, arg, out, file, result, progress,
                   mut, hs, timers, errorObserved>>

\* an edit of one field of the mounted form
EditContext ==
    /\ page \in {"Dashboard", "AnalyzePage"}
    /\ \E f \in {[form EXCEPT !.role = r] : r \in Roles}
            \cup {[form EXCEPT !.experience = e] : e \in ExperienceOptions}
            \cup {[form EXCEPT !.companyType = c] : c \in CompanyOptions}
            \cup {[form EXCEPT !.location = l] : l \in LocationInputs}
            \cup {[form EXCEPT !.industry = i] : i \in IndustryOptions} :
         /\ f # form
         /\ Commit(page, f)
    /\ UNCHANGED <<copiedScript, storageOk, arg, out, file, result, progress,
                   mut, hs, timers, errorObserved>>

\* the storage starts or stops accepting writes (quota, private mode)
StorageChanges ==
    /\ storageOk' = ~storageOk
    /\ UNCHANGED <<copiedScript, arg, out, page, context, storage, form, file,
                   result, progress, mut, hs, timers, errorObserved>>

\* the user reloads the tab
Reload ==
    /\ page # "Unmounted"
    /\ page' = "Unmounted"
    /\ form' = NoForm
    /\ context' = NoCtx
    /\ UNCHANGED <<aux, storage, file, result, progress, mut, hs, timers,
                   errorObserved>>

StorageNext ==
    \/ \E view \in {"Dashboard", "AnalyzePage"} : Mount(view)
    \/ EditContext
    \/ StorageChanges
    \/ Reload

StorageSpec == StorageInit /\ [][StorageNext]_vars

\* C14 (as claimed): with a storage that accepts writes, mounting a view
\* never throws, and when the storage key is missing or holds a text
\* that cannot be parsed the view is mounted with its default Context.
C14_ReadNeverThrows ==
    [][(page = "Unmounted" /\ page' # page /\ storageOk) =>
          /\ page' \in {"Dashboard", "AnalyzePage"}
          /\ (storage = None \/ ~WellFormed(storage)) =>
                 context' = MountedDefault(page')]_vars

\* C16 (as claimed): an edit made on the Dashboard while the storage
\* refuses writes leaves the view mounted with the Context as edited.
C16_WriteFailureSwallowed ==
    [][(page = "Dashboard" /\ ~storageOk /\ form' # form) =>
          (page' = "Dashboard" /\ form' # NoForm
           /\ context' = FormCtx(form'))]_vars

\* C17: round trip: while the Dashboard is mounted, what its initialiser
\* would read back from the storage is the Context just written, for
\* every Context the form can produce.
C17_RoundTrip ==
    page = "Dashboard" =>
        (storage # None /\ WellFormed(storage)
         /\ ReadContext(storage, "Dashboard") = context)

C17_Witness ==
    /\ page = "Dashboard"
    /\ context = [role |-> "", experience_level |-> 15,
                  company_type |-> "SERVICE", location |-> "pune",
                  industry |-> "finance"]
    /\ storage = Stringify(context)

\* ==================================================================
\* The negotiation playbook of the result views
\* ==================================================================
Priorities == {1, 2, 3}

\* the negotiation_points a result can deliver; the id of a point is its
\* position in the delivered list
PointLists ==
    {[i \in 1..n |-> [id |-> i, priority |-> f[i]]] :
        n \in 0..MaxPoints, f \in [1..MaxPoints -> Priorities]}

\* x goes behind every point whose priority is not greater than its own
RECURSIVE InsertByPriority(_, _)
InsertByPriority(s, x) ==
    IF s = << >> THEN <<x>>
    ELSE IF s[Len(s)].priority <= x.priority THEN Append(s, x)
    ELSE Append(InsertByPriority(SubSeq(s, 1, Len(s) - 1), x), s[Len(s)])

\* Array.prototype.sort((a, b) => a.priority - b.priority), which is stable
RECURSIVE SortByPriority(_)
SortByPriority(s) ==
    IF s = << >> THEN << >>
    ELSE InsertByPriority(SortByPriority(SubSeq(s, 1, Len(s) - 1)), s[Len(s)])

\* a result has arrived and no view has rendered it yet
SortInit ==
    /\ page = "Unmounted"
    /\ arg \in PointLists
    /\ out = None
    /\ context = NoCtx
    /\ form = NoForm
    /\ storage = None
    /\ file = None
    /\ result = "r1"
    /\ progress = 0
    /\ mut = IdleMutation
    /\ hs = << >>
    /\ timers = << >>
    /\ errorObserved = FALSE
    /\ copiedScript = None
    /\ storageOk = TRUE

\* Dashboard: the list is sorted in place and mapped
DashboardPlaybook ==
    /\ page = "Unmounted"
    /\ page' = "Dashboard"
    /\ arg' = SortByPriority(arg)
    /\ out' = SortByPriority(arg)
    /\ UNCHANGED <<copiedScript, storageOk, context, storage, form, file,
                   result, progress, mut, hs, timers, errorObserved>>

\* ResultsPage: the list is mapped as delivered
ResultsPagePlaybook ==
    /\ page = "Unmounted"
    /\ page' = "ResultsPage"
    /\ out' = arg
    /\ UNCHANGED <<copiedScript, storageOk, arg, context, storage, form, file,
                   result, progress, mut, hs, timers, errorObserved>>

\* RedFlagsPanel: the list is mapped as delivered
RedFlagsPanelPlaybook ==
    /\ page = "Unmounted"
    /\ page' = "RedFlagsPanel"
    /\ out' = arg
    /\ UNCHANGED <<copiedScript, storageOk, arg, context, storage, form, file,
                   result, progress, mut, hs, timers, errorObserved>>

SortNext ==
    \/ DashboardPlaybook
    \/ ResultsPagePlaybook
    \/ RedFlagsPanelPlaybook

SortSpec == SortInit /\ [][SortNext]_vars

\* C19 (as claimed): in every view the rendered negotiation points are in
\* ascending order of priority, and points of equal priority are in the
\* order in which the result delivered them.
C19_PlaybookSortedStable ==
    page # "Unmounted" =>
        \A i, j \in 1..Len(out) :
            i < j => \/ out[i].priority < out[j].priority
                     \/ (out[i].priority = out[j].priority
                         /\ out[i].id < out[j].id)

\* ==================================================================
\* The score bands of the Dashboard
\* ==================================================================
getScoreColor(score) ==
    IF score >= 80 THEN "text-emerald-600"
    ELSE IF score >= 60 THEN "text-blue-600"
    ELSE IF score >= 40 THEN "text-yellow-600"
    ELSE IF score >= 20 THEN "text-orange-600"
    ELSE "text-red-600"

\* a background function whose first test is strict
getScoreBgColorStrict(score) ==
    IF score > 80 THEN "bg-emerald-50 border-emerald-200"
    ELSE IF score >= 60 THEN "bg-blue-50 border-blue-200"
    ELSE IF score >= 40 THEN "bg-yellow-50 border-yellow-200"
    ELSE IF score >= 20 THEN "bg-orange-50 border-orange-200"
    ELSE "bg-red-50 border-red-200"

getScoreBgColor(score) ==
    IF score >= 80 THEN "bg-emerald-50 border-emerald-200"
    ELSE IF score >= 60 THEN "bg-blue-50 border-blue-200"
    ELSE IF score >= 40 THEN "bg-yellow-50 border-yellow-200"
    ELSE IF score >= 20 THEN "bg-orange-50 border-orange-200"
    ELSE "bg-red-50 border-red-200"

\* the class of the score bar
ScoreBar(score) ==
    IF score >= 80 THEN "bg-gradient-to-r from-emerald-500 to-emerald-600"
    ELSE IF score >= 60 THEN "bg-gradient-to-r from-blue-500 to-blue-600"
    ELSE IF score >= 40 THEN "bg-gradient-to-r from-yellow-500 to-yellow-600"
    ELSE IF score >= 20 THEN "bg-gradient-to-r from-orange-500 to-orange-600"
    ELSE "bg-gradient-to-r from-red-500 to-red-600"

\* ResultHeader.getScoreLabel
getScoreLabel(score) ==
    IF score >= 80
    THEN [label |-> "Excellent",
          class |-> "text-emerald-500 bg-emerald-50 border-emerald-100"]
    ELSE IF score >= 60
    THEN [label |-> "Good",
          class |-> "text-brand-500 bg-brand-50 border-brand-100"]
    ELSE IF score >= 40
    THEN [label |-> "Average",
          class |-> "text-amber-500 bg-amber-50 border-amber-100"]
    ELSE [label |-> "Risky", class |-> "text-red-500 bg-red-50 border-red-100"]

\* ScoreRing.getColor
getColor(s) ==
    IF s >= 80 THEN "text-emerald-500"
    ELSE IF s >= 60 THEN "text-brand-500"
    ELSE IF s >= 40 THEN "text-amber-500"
    ELSE "text-red-500"

\* no label has been computed
NoLabel == [label |-> None, class |-> None]

\* a score has arrived and no function has been applied to it yet
BandInit ==
    /\ page = "Dashboard"
    /\ arg \in 0..MaxScore
    /\ out = [color |-> None, bg |-> None, bar |-> None, label |-> NoLabel,
              ring |-> None]
    /\ context = NoCtx
    /\ form = NoForm
    /\ storage = None
    /\ file = None
    /\ result = "r1"
    /\ progress = 0
    /\ mut = IdleMutation
    /\ hs = << >>
    /\ timers = << >>
    /\ errorObserved = FALSE
    /\ copiedScript = None
    /\ storageOk = TRUE

ApplyGetScoreColor ==
    /\ out.color = None
    /\ out' = [out EXCEPT !.color = getScoreColor(arg)]
    /\ UNCHANGED <<copiedScript, storageOk, arg, page, context, storage, form,
                   file, result, progress, mut, hs, timers, errorObserved>>

ApplyGetScoreBgColor ==
    /\ out.bg = None
    /\ out' = [out EXCEPT !.bg = getScoreBgColor(arg)]
    /\ UNCHANGED <<copiedScript, storageOk, arg, page, context, storage, form,
                   file, result, progress, mut, hs, timers, errorObserved>>

ApplyScoreBar ==
    /\ out.bar = None
    /\ out' = [out EXCEPT !.bar = ScoreBar(arg)]
    /\ UNCHANGED <<copiedScript, storageOk, arg, page, context, storage, form,
                   file, result, progress, mut, hs, timers, errorObserved>>

\* ResultHeader renders the label of the overall score
ApplyGetScoreLabel ==
    /\ out.label = NoLabel
    /\ out' = [out EXCEPT !.label = getScoreLabel(arg)]
    /\ UNCHANGED <<copiedScript, storageOk, arg, page, context, storage, form,
                   file, result, progress, mut, hs, timers, errorObserved>>

\* ScoreRing renders the ring of the score
ApplyGetColor ==
    /\ out.ring = None
    /\ out' = [out EXCEPT !.ring = getColor(arg)]
    /\ UNCHANGED <<copiedScript, storageOk, arg, page, context, storage, form,
                   file, result, progress, mut, hs, timers, errorObserved>>

BandNext ==
    \/ ApplyGetScoreColor
    \/ ApplyGetScoreBgColor
    \/ ApplyScoreBar
    \/ ApplyGetScoreLabel
    \/ ApplyGetColor

BandSpec == BandInit /\ [][BandNext]_vars

\* the cut points of the claim and the band a score falls in: the number
\* of cut points that are not above it
CutPoints == {20, 40, 60, 80}
BandOf(score) == Cardinality({c \in CutPoints : c <= score})

\* the hue each band is drawn in, from the lowest band to the highest
BandHue == <<"red", "orange", "yellow", "blue", "emerald">>

\* the hue named by a class string
Hue(class) ==
    CASE class \in {"text-red-600", "bg-red-50 border-red-200",
                    "bg-gradient-to-r from-red-500 to-red-600"} -> "red"
      [] class \in {"text-orange-600", "bg-orange-50 border-orange-200",
                    "bg-gradient-to-r from-orange-500 to-orange-600"}
             -> "orange"
      [] class \in {"text-yellow-600", "bg-yellow-50 border-yellow-200",
                    "bg-gradient-to-r from-yellow-500 to-yellow-600"}
             -> "yellow"
      [] class \in {"text-blue-600", "bg-blue-50 border-blue-200",
                    "bg-gradient-to-r from-blue-500 to-blue-600"} -> "blue"
      [] class \in {"text-emerald-600", "bg-emerald-50 border-emerald-200",
                    "bg-gradient-to-r from-emerald-500 to-emerald-600"}
             -> "emerald"
      [] OTHER -> None

\* C20: every score of [0,100] is drawn in the hue of the one band the cut
\* points 20/40/60/80 put it in, a cut point belonging to the band above
\* it, and the colour function, the background function and the score bar
\* agree on that band.
C20_BandsPartitionAndAgree ==
    \A k \in {"color", "bg", "bar"} :
        out[k] # None => Hue(out[k]) = BandHue[BandOf(arg) + 1]

C20_Witness ==
    /\ arg = 80
    /\ out.color = "text-emerald-600"
    /\ out.bg = "bg-emerald-50 border-emerald-200"
    /\ out.bar # None

\* the Dashboard hue of the band that a class of ResultHeader or of
\* ScoreRing stands for: the top band, the second, the third, the lowest
HeaderHue(class) ==
    CASE class \in {"text-emerald-500 bg-emerald-50 border-emerald-100",
                    "text-emerald-500"} -> "emerald"
      [] class \in {"text-brand-500 bg-brand-50 border-brand-100",
                    "text-brand-500"} -> "blue"
      [] class \in {"text-amber-500 bg-amber-50 border-amber-100",
                    "text-amber-500"} -> "yellow"
      [] class \in {"text-red-500 bg-red-50 border-red-100",
                    "text-red-500"} -> "red"
      [] OTHER -> None

\* C21 (as claimed): the band the ResultHeader label and the ScoreRing
\* colour give a score is the band the Dashboard functions give it.
C21_SameBandEverywhere ==
    \A k \in {"color", "bg", "bar"} :
        out[k] # None =>
            /\ out.label # NoLabel => HeaderHue(out.label.class) = Hue(out[k])
            /\ out.ring # None => HeaderHue(out.ring) = Hue(out[k])

\* ==================================================================
\* The clause heatmap of ResultsPage
\* ==================================================================
Max(a, b) == IF a >= b THEN a ELSE b

\* extraction.<field>?.value used as a condition: absent and 0 are falsy
Truthy(x) == x.present /\ x.value # 0

TerminationRisk(x) ==
    IF Truthy(x)
    THEN (IF x.value > 60 THEN "high"
          ELSE IF x.value > 30 THEN "medium" ELSE "low")
    ELSE "low"

\* the score of the notice period without the floor at 0
TerminationScoreRaw(x) ==
    IF Truthy(x) THEN 100 - (x.value - 30) * 2 ELSE 90

TerminationScore(x) ==
    IF Truthy(x) THEN Max(0, 100 - (x.value - 30) * 2) ELSE 90

NonCompeteRisk(x) ==
    IF Truthy(x)
    THEN (IF x.value > 12 THEN "high"
          ELSE IF x.value > 6 THEN "medium" ELSE "low")
    ELSE "low"

NonCompeteScore(x) ==
    IF Truthy(x) THEN Max(0, 100 - x.value * 5) ELSE 100

BondRisk(x) ==
    IF Truthy(x)
    THEN (IF x.value > 100000 THEN "high"
          ELSE IF x.value > 50000 THEN "medium" ELSE "low")
    ELSE "low"

\* the amounts of the model are multiples of 10000, so the quotient is exact
BondScore(x) ==
    IF Truthy(x) THEN Max(0, 100 - (x.value \div 10000)) ELSE 100

ProbationRisk(x) ==
    IF Truthy(x)
    THEN (IF x.value > 6 THEN "high"
          ELSE IF x.value > 3 THEN "medium" ELSE "low")
    ELSE "low"

ProbationScore(x) ==
    IF Truthy(x) THEN Max(0, 100 - (x.value - 3) * 10) ELSE 90

\* an extracted field: absent, or present with a non-negative value
Extracted(values) ==
    {[present |-> FALSE, value |-> 0]}
        \cup {[present |-> TRUE, value |-> v] : v \in values}

\* the clause inputs of the heatmap, one clause type at a time
ClauseInputs ==
    {[type |-> "Termination", x |-> x] : x \in Extracted(0..MaxDays)}
        \cup {[type |-> t, x |-> x] :
                 t \in {"Non Compete", "Probation"},
                 x \in Extracted(0..MaxMonths)}
        \cup {[type |-> "Bond", x |-> x] :
                 x \in Extracted({u * 10000 : u \in 0..MaxBondUnits})}

\* the clause has not been computed
NoClause == [risk |-> None, score |-> 0]

HeatInit ==
    /\ page = "ResultsPage"
    /\ arg \in ClauseInputs
    /\ out = NoClause
    /\ context = NoCtx
    /\ form = NoForm
    /\ storage = None
    /\ file = None
    /\ result = "r1"
    /\ progress = 0
    /\ mut = IdleMutation
    /\ hs = << >>
    /\ timers = << >>
    /\ errorObserved = FALSE
    /\ copiedScript = None
    /\ storageOk = TRUE

TerminationClause ==
    /\ arg.type = "Termination" /\ out = NoClause
    /\ out' = [risk |-> TerminationRisk(arg.x),
               score |-> TerminationScore(arg.x)]
    /\ UNCHANGED <<copiedScript, storageOk, arg, page, context, storage, form,
                   file, result, progress, mut, hs, timers, errorObserved>>

NonCompeteClause ==
    /\ arg.type = "Non Compete" /\ out = NoClause
    /\ out' = [risk |-> NonCompeteRisk(arg.x),
               score |-> NonCompeteScore(arg.x)]
    /\ UNCHANGED <<copiedScript, storageOk, arg, page, context, storage, form,
                   file, result, progress, mut, hs, timers, errorObserved>>

BondClause ==
    /\ arg.type = "Bond" /\ out = NoClause
    /\ out' = [risk |-> BondRisk(arg.x), score |-> BondScore(arg.x)]
    /\ UNCHANGED <<copiedScript, storageOk, arg, page, context, storage, form,
                   file, result, progress, mut, hs, timers, errorObserved>>

ProbationClause ==
    /\ arg.type = "Probation" /\ out = NoClause
    /\ out' = [risk |-> ProbationRisk(arg.x),
               score |-> ProbationScore(arg.x)]
    /\ UNCHANGED <<copiedScript, storageOk, arg, page, context, storage, form,
                   file, result, progress, mut, hs, timers, errorObserved>>

HeatNext ==
    \/ TerminationClause
    \/ NonCompeteClause
    \/ BondClause
    \/ ProbationClause

HeatSpec == HeatInit /\ [][HeatNext]_vars

\* C22: for the notice period the tier is low for days <= 30, medium for
\* 30 < days <= 60 and high for days > 60 (low when no period was
\* extracted), and the score is never negative.
C22_NoticeTierAndScoreFloor ==
    (arg.type = "Termination" /\ out # NoClause) =>
        /\ out.score >= 0
        /\ out.risk = IF ~arg.x.present \/ arg.x.value <= 30 THEN "low"
                      ELSE IF arg.x.value <= 60 THEN "medium" ELSE "high"

C22_Witness ==
    /\ arg.type = "Termination" /\ arg.x.present /\ arg.x.value = 90
    /\ out = [risk |-> "high", score |-> 0]

\* C23 (as claimed): for each clause type and every extracted value, absent
\* or non-negative, the score lies in [0,100] and the tier is low, medium
\* or high.
C23_HeatmapScoreInRange ==
    out # NoClause =>
        /\ out.score >= 0 /\ out.score <= 100
        /\ out.risk \in {"low", "medium", "high"}

\* ==================================================================
\* The closest point of a chart series
\* ==================================================================
Abs(a) == IF a >= 0 THEN a ELSE 0 - a

\* a reducer that lets the later of two equally close points win
RECURSIVE ReduceClosestLast(_, _, _, _)
ReduceClosestLast(data, target, i, prev) ==
    IF i > Len(data) THEN prev
    ELSE ReduceClosestLast(data, target, i + 1,
             IF Abs(data[i].salary - target) <= Abs(prev.salary - target)
             THEN data[i] ELSE prev)

\* data.reduce((prev, curr) => |curr - target| < |prev - target| ? curr
\* : prev) from element i on, prev being the accumulator
RECURSIVE ReduceClosest(_, _, _, _)
ReduceClosest(data, target, i, prev) ==
    IF i > Len(data) THEN prev
    ELSE ReduceClosest(data, target, i + 1,
             IF Abs(data[i].salary - target) < Abs(prev.salary - target)
             THEN data[i] ELSE prev)

\* reduce without an initial value starts from the first element
findClosestX(data, target) == ReduceClosest(data, target, 2, data[1]).salary

\* the x-values and the targets of the model
SeriesXs == {0, 2, 4}
Targets == (0 - 1)..5

\* the non-empty series
SeriesInputs ==
    {[i \in 1..n |-> [salary |-> f[i]]] :
        n \in 1..MaxSeries, f \in [1..MaxSeries -> SeriesXs]}

\* nothing has been looked up
NoLookup == [done |-> FALSE, x |-> 0]

ClosestInit ==
    /\ page = "BenchmarkPanel"
    /\ arg \in {[data |-> d, target |-> t] : d \in SeriesInputs, t \in Targets}
    /\ out = NoLookup
    /\ context = NoCtx
    /\ form = NoForm
    /\ storage = None
    /\ file = None
    /\ result = "r1"
    /\ progress = 0
    /\ mut = IdleMutation
    /\ hs = << >>
    /\ timers = << >>
    /\ errorObserved = FALSE
    /\ copiedScript = None
    /\ storageOk = TRUE

\* the chart places a reference line at the closest point
ApplyFindClosestX ==
    /\ ~out.done
    /\ out' = [done |-> TRUE, x |-> findClosestX(arg.data, arg.target)]
    /\ UNCHANGED <<copiedScript, storageOk, arg, page, context, storage, form,
                   file, result, progress, mut, hs, timers, errorObserved>>

ClosestNext == ApplyFindClosestX

ClosestSpec == ClosestInit /\ [][ClosestNext]_vars

\* the distance of point i of the series to the target
Dist(i) == Abs(arg.data[i].salary - arg.target)

\* C24: the x-value returned is the one of the first point of the series
\* that is at the least distance from the target; so it is present in the
\* series, and for a target below or above every x-value of the series it
\* is the least or the greatest of them.
C24_ClosestPresentFirstMinimum ==
    out.done =>
        LET idx == 1..Len(arg.data)
            xs == {arg.data[i].salary : i \in idx}
            first == CHOOSE i \in idx :
                         /\ \A j \in idx : Dist(i) <= Dist(j)
                         /\ \A j \in idx : j < i => Dist(j) > Dist(i)
        IN  /\ out.x \in xs
            /\ out.x = arg.data[first].salary
            /\ (\A x \in xs : arg.target < x) => \A x \in xs : out.x <= x
            /\ (\A x \in xs : arg.target > x) => \A x \in xs : out.x >= x

C24_Witness ==
    /\ out.done
    /\ arg.data = <<[salary |-> 4], [salary |-> 0], [salary |-> 2]>>
    /\ arg.target = 3
    /\ out.x = 4

\* ==================================================================
\* The distribution curve of the salary benchmark
\* ==================================================================
\* With W = market_p75 - market_p25: stdDev = W / 1.35, start = p25 -
\* stdDev, step = (W + 2 stdDev) / 50 = 67 W / 1350, so that in units of
\* 1/1350 the x of loop index i is 1350 p25 + W (67 i - 1000), and
\* (x - median) / stdDev is (x - 1350 median) / (1000 W).
SampleX(b, i) ==
    XScale * b.market_p25 + (b.market_p75 - b.market_p25) * (67 * i - 1000)

\* Math.exp(-0.5 * z * z) is 0 in double precision when |z| exceeds 38.6
\* and positive otherwise; z = n / (1000 w)
ExpUnderflows(n, w) == Abs(n) * 10 > 386 * 1000 * w

\* the density of the point at x: whether it is 0, and otherwise
\* the exponent of its exponential, -(x - median)^2 in units of
\* 1/(2 (1350 stdDev)^2); the factor in front of the exponential is the
\* same positive number for every point
Density(b, x) ==
    LET n == x - XScale * b.market_median
    IN  [zero |-> ExpUnderflows(n, b.market_p75 - b.market_p25),
         exponent |-> 0 - n * n]

\* the loop that stops one point early
generateDistributionDataShort(b) ==
    [k \in 1..points |->
        [salary |-> SampleX(b, k - 1), density |-> Density(b, SampleX(b, k - 1))]]

\* for (let i = 0; i <= points; i++) data.push({salary, density})
generateDistributionData(b) ==
    [k \in 1..(points + 1) |->
        [salary |-> SampleX(b, k - 1), density |-> Density(b, SampleX(b, k - 1))]]

\* the benchmarks with p25 < median < p75
Benchmarks ==
    {[market_p25 |-> a, market_median |-> m, market_p75 |-> c] :
        a \in 0..MaxSalary, m \in 0..MaxSalary, c \in 0..MaxSalary}

OrderedBenchmarks ==
    {b \in Benchmarks :
        b.market_p25 < b.market_median /\ b.market_median < b.market_p75}

DistInit ==
    /\ page = "BenchmarkPanel"
    /\ arg \in OrderedBenchmarks
    /\ out = << >>
    /\ context = NoCtx
    /\ form = NoForm
    /\ storage = None
    /\ file = None
    /\ result = "r1"
    /\ progress = 0
    /\ mut = IdleMutation
    /\ hs = << >>
    /\ timers = << >>
    /\ errorObserved = FALSE
    /\ copiedScript = None
    /\ storageOk = TRUE

\* SalaryBenchmark renders: const data = generateDistributionData(benchmark)
ApplyGenerateDistributionData ==
    /\ out = << >>
    /\ out' = generateDistributionData(arg)
    /\ UNCHANGED <<copiedScript, storageOk, arg, page, context, storage, form,
                   file, result, progress, mut, hs, timers, errorObserved>>

DistNext == ApplyGenerateDistributionData

DistSpec == DistInit /\ [][DistNext]_vars

\* d1 is at least as large a density as d2
DensityAtLeast(d1, d2) ==
    IF d2.zero THEN TRUE
    ELSE IF d1.zero THEN FALSE
    ELSE d1.exponent >= d2.exponent

\* C25: for p25 < median < p75 the series has 51 points, every density is
\* strictly positive, and the points of maximum density are the points
\* whose x is nearest the median.
C25_DistributionShape ==
    out # << >> =>
        LET idx == 1..Len(out)
            far(i) == Abs(out[i].salary - XScale * arg.market_median)
        IN  /\ Len(out) = 51
            /\ \A i \in idx : ~out[i].density.zero
            /\ \A i \in idx :
                   (\A j \in idx : DensityAtLeast(out[i].density, out[j].density))
                       <=> (\A j \in idx : far(i) <= far(j))

C25_Witness ==
    /\ Len(out) = 51
    /\ arg = [market_p25 |-> 0, market_median |-> 1, market_p75 |-> 8]
    /\ ~out[1].density.zero

\* ==================================================================
\* The percentile displays
\* ==================================================================
\* the percentile values a result may carry: the scale and values that a
\* faulty service puts outside it
PercentileValues == (0 - 20)..120

\* nothing has been drawn
NoBars == [salary |-> << >>, notice |-> << >>, marker |-> << >>]

PctInit ==
    /\ page = "Dashboard"
    /\ arg \in PercentileValues
    /\ out = NoBars
    /\ context = NoCtx
    /\ form = NoForm
    /\ storage = None
    /\ file = None
    /\ result = "r1"
    /\ progress = 0
    /\ mut = IdleMutation
    /\ hs = << >>
    /\ timers = << >>
    /\ errorObserved = FALSE
    /\ copiedScript = None
    /\ storageOk = TRUE

\* Dashboard: width: `${result.percentiles.salary.value}%`
SalaryPercentileBar ==
    /\ out.salary = << >>
    /\ out' = [out EXCEPT !.salary = <<arg>>]
    /\ UNCHANGED <<copiedScript, storageOk, arg, page, context, storage, form,
                   file, result, progress, mut, hs, timers, errorObserved>>

\* Dashboard: width: `${100 - result.percentiles.notice_period.value}%`
NoticePercentileBar ==
    /\ out.notice = << >>
    /\ out' = [out EXCEPT !.notice = <<100 - arg>>]
    /\ UNCHANGED <<copiedScript, storageOk, arg, page, context, storage, form,
                   file, result, progress, mut, hs, timers, errorObserved>>

\* BellCurve: const markerX = percentile
BellCurveMarker ==
    /\ out.marker = << >>
    /\ out' = [out EXCEPT !.marker = <<arg>>]
    /\ UNCHANGED <<copiedScript, storageOk, arg, page, context, storage, form,
                   file, result, progress, mut, hs, timers, errorObserved>>

PctNext ==
    \/ SalaryPercentileBar
    \/ NoticePercentileBar
    \/ BellCurveMarker

PctSpec == PctInit /\ [][PctNext]_vars

\* C26 (as claimed): every quantity drawn from a percentile, the bar
\* width, the complement and the marker position, lies in [0,100].
C26_PercentileClamped ==
    \A k \in {"salary", "notice", "marker"} :
        \A i \in 1..Len(out[k]) : out[k][i] >= 0 /\ out[k][i] <= 100

\* ==================================================================
\* The findings of the report
\* ==================================================================
\* what a result carries of findings: the lengths of its lists and
\* whether it has a narration
FindingsInputs ==
    {[red_flags |-> r, favorable_terms |-> f, negotiation_points |-> n,
      narration |-> s] :
        r \in 0..MaxFindings, f \in 0..MaxFindings, n \in 0..MaxFindings,
        s \in BOOLEAN}

\* what a view shows of the findings: the panels that have content, the
\* panels rendered without content, and the explicit empty state
NothingShown == [panels |-> {}, empty |-> {}, notice |-> FALSE]

FindingsInit ==
    /\ page = "Unmounted"
    /\ arg \in FindingsInputs
    /\ out = NothingShown
    /\ context = NoCtx
    /\ form = NoForm
    /\ storage = None
    /\ file = None
    /\ result = "r1"
    /\ progress = 0
    /\ mut = IdleMutation
    /\ hs = << >>
    /\ timers = << >>
    /\ errorObserved = FALSE
    /\ copiedScript = None
    /\ storageOk = TRUE

\* Dashboard: each section is rendered when its list is not empty
DashboardFindings ==
    /\ page = "Unmounted"
    /\ page' = "Dashboard"
    /\ out' = [panels |->
                   (IF arg.red_flags > 0 THEN {"RED FLAGS"} ELSE {})
                   \cup (IF arg.favorable_terms > 0 THEN {"STRONG POINTS"}
                         ELSE {})
                   \cup (IF arg.negotiation_points > 0
                         THEN {"NEGOTIATION PLAYBOOK"} ELSE {})
                   \cup (IF arg.narration THEN {"narration"} ELSE {}),
               empty |-> {},
               notice |-> FALSE]
    /\ UNCHANGED <<copiedScript, storageOk, arg, context, storage, form, file,
                   result, progress, mut, hs, timers, errorObserved>>

\* ResultsPage: the verdict, the risks and the playbook are always
\* rendered, the lists mapped as they are; favorable terms are not shown
ResultsPageFindings ==
    /\ page = "Unmounted"
    /\ page' = "ResultsPage"
    /\ out' = [panels |->
                   {"The Verdict"}
                   \cup (IF arg.red_flags > 0 THEN {"Critical Risks"} ELSE {})
                   \cup (IF arg.negotiation_points > 0
                         THEN {"Negotiation Playbook"} ELSE {}),
               empty |->
                   (IF arg.red_flags = 0 THEN {"Critical Risks"} ELSE {})
                   \cup (IF arg.negotiation_points = 0
                         THEN {"Negotiation Playbook"} ELSE {}),
               notice |-> FALSE]
    /\ UNCHANGED <<copiedScript, storageOk, arg, context, storage, form, file,
                   result, progress, mut, hs, timers, errorObserved>>

\* RedFlagsPanel: the sections as on the Dashboard, and the empty state
RedFlagsPanelFindings ==
    /\ page = "Unmounted"
    /\ page' = "RedFlagsPanel"
    /\ out' = [panels |->
                   (IF arg.red_flags > 0 THEN {"Red Flags"} ELSE {})
                   \cup (IF arg.favorable_terms > 0 THEN {"Strong Points"}
                         ELSE {})
                   \cup (IF arg.negotiation_points > 0
                         THEN {"Negotiation Playbook"} ELSE {})
                   \cup (IF arg.narration THEN {"narration"} ELSE {}),
               empty |-> {},
               notice |-> (arg.red_flags = 0 /\ arg.favorable_terms = 0
                           /\ ~arg.narration)]
    /\ UNCHANGED <<copiedScript, storageOk, arg, context, storage, form, file,
                   result, progress, mut, hs, timers, errorObserved>>

FindingsNext ==
    \/ DashboardFindings
    \/ ResultsPageFindings
    \/ RedFlagsPanelFindings

FindingsSpec == FindingsInit /\ [][FindingsNext]_vars

\* C27 (as claimed): a view that renders a result without red flags,
\* favorable terms and narration shows the explicit empty state, and no
\* findings panel without content.
C27_ExplicitEmptyState ==
    (page # "Unmounted" /\ arg.red_flags = 0 /\ arg.favorable_terms = 0
     /\ ~arg.narration) =>
        (out.notice /\ out.empty \cap {"Critical Risks"} = {})

\* C28 (as claimed): the negotiation_points of the result held by the
\* client stay in the order in which they were received, whatever has been
\* rendered (the id of a point is its position in the response).
C28_ResultNotModified ==
    \A i \in 1..Len(arg) : arg[i].id = i

\* C29 (as claimed): while a view has no selected file and no result,
\* which is how a clear leaves it, no result is presented and the view is
\* not left for the results view: a result needs a new selection and a new
\* submission first.
C29_NoResultAfterClear ==
    [][(page \in {"Dashboard", "AnalyzePage"} /\ file = None
        /\ result = None) =>
          (result' = None /\ page' = page)]_vars

\* C30 (as claimed): while an invocation of handleAnalyze has not
\* returned, the selected file of the view is the file it submitted.
C30_FileFixedWhileSubmitting ==
    page \in {"Dashboard", "AnalyzePage"} =>
        \A h \in ActiveSet : file = hs[h].file
====
